---- MODULE Spec2Model ----
(***************************************************************************)
(* A model of the graph library in src/src/lib.rs.                         *)
(*                                                                         *)
(* Graph<V, E> keeps an adjacency list and a vector of vertices.  Every    *)
(* method takes the graph by shared reference (&self), so the model keeps  *)
(* each graph's two fields and applies to them exactly what each method    *)
(* body does.  A call that reaches unimplemented!() panics: the panic      *)
(* unwinds out of the call, the graph (borrowed shared, not yet touched)   *)
(* is left as it was, and a caller that catches the unwind may go on       *)
(* calling.  The outcome of the most recent call is kept in `last`.        *)
(***************************************************************************)
EXTENDS Integers, Sequences, FiniteSets, TLC

\* ---------------------------------------------------------------- bounds
MaxGraphs  == 2   \* graphs constructed by Graph::new(): ids 1..MaxGraphs
MaxIndex   == 1   \* handle indices a caller passes: 0..MaxIndex
MaxPayload == 2   \* vertex payloads (type V): 1..MaxPayload
MaxWeight  == 1   \* edge weights (type E) a caller passes: 1..MaxWeight
MaxPairs   == 1   \* length of the `edges` vector given to the bulk helpers

\* E::default() for an integer weight type (lib.rs:119)
DefaultWeight == 0

GraphIds == 1..MaxGraphs
Indices  == 0..MaxIndex
Payloads == 1..MaxPayload
Weights  == 1..MaxWeight

\* ------------------------------------------------------------ data types
\* struct Graph { adj_list: Vec<LinkedList<Edge<E>>>, vertices: Vec<Vertex<V>> }
Graph(adj, vs) == [adj_list |-> adj, vertices |-> vs]

\* struct Edge { parent, child, weight }
Edge(p, c, w) == [parent |-> p, child |-> c, weight |-> w]

\* struct VRef { index, graph }: the graph reference is modelled by the
\* id of the graph it points to.
VRef(i, g) == [index |-> i, graph |-> g]

VRefs == {VRef(i, g) : i \in Indices, g \in GraphIds}

\* The pairs of handles a caller passes to a two-handle method of graph g:
\* the second was made for g, the first for any graph (g or another one).
VRefPairs ==
    [g \in GraphIds |-> {p \in VRefs \X VRefs : p[2].graph = g}]

\* VRef::clone copies both fields.
VRef_clone(r) == VRef(r.index, r.graph)

\* Option<T>: None is the empty tuple, Some(x) the one-element tuple.
None    == << >>
Some(x) == <<x>>

\* PhantomData<V>: a zero-sized marker that holds no V.
PhantomData == << >>

\* The outcome of a call: it returned a value, or it panicked.
Ret(v) == [kind |-> "ret", val |-> v]
Panic  == [kind |-> "panic", val |-> << >>]

\* The result of running a method body: its outcome and the graph after it.
Res(o, g) == [out |-> o, g |-> g]

\* Sequences of at most n pairs of distinct payloads (the `edges` argument).
RECURSIVE PairSeqs(_)
PairSeqs(n) ==
    IF n = 0 THEN {<< >>}
    ELSE LET shorter == PairSeqs(n - 1)
         IN  shorter \cup {Append(s, e) :
                             s \in {t \in shorter : Len(t) = n - 1},
                             e \in {q \in Payloads \X Payloads : q[1] # q[2]}}

\* The `edges` vectors a caller passes.
EdgeLists == PairSeqs(MaxPairs)

VARIABLES graphs, iter, last, rep

vars == <<graphs, iter, last, rep>>

\* ------------------------------------------------- method bodies (impl Graph)
\* Graph::new(): both vectors empty.
new == Graph(<< >>, << >>)

\* The body is unimplemented!(): the call panics before anything is stored.
add_vertex(self, g, v) == Res(Panic, self)

\* The body is unimplemented!(): the call panics whatever the handles are.
add_edge(self, g, v1, v2, value) == Res(Panic, self)

\* The body is Default::default(): a PhantomData, nothing is written.
replace_vertex(self, v, value) == Res(Ret(PhantomData), self)

\* replace_edge, had it inserted the edge it did not find.
replace_edge_upsert(self, v1, v2, value) ==
    Res(Ret(None),
        Graph(Append(self.adj_list, <<Edge(v1.index, v2.index, value)>>),
              self.vertices))

\* The body is None: the value is dropped, nothing is written.
replace_edge(self, v1, v2, value) == Res(Ret(None), self)

\* The body is Vec::new().
get_neighbors(self, v) == << >>

\* adjacent, had it looked from the lower index to the higher one only.
adjacent_one_way(self, v1, v2) == v1.index <= v2.index

\* The body is the literal true.
adjacent(self, v1, v2) == TRUE

\* The body is the literal 0.
num_vertices(self) == 0

\* The body is the literal 0.
num_edges(self) == 0

\* The body is Vec::new().
get_adjacency_matrix(self) == << >>

\* get_laplacian, had it allocated one row and column too many.
get_laplacian_extra_row(self) ==
    [i \in 1..(Len(self.vertices) + 1) |->
        [j \in 1..(Len(self.vertices) + 1) |-> 0]]

\* The body is Vec::new().
get_laplacian(self) == << >>

\* The body is the literal 1.
num_components(self) == 1

\* <VRef as Deref>::deref: unimplemented!().
VRef_deref(r) == Panic

\* ------------------------------------------------------------- iteration
\* Graph::vertices(): a VIter whose reference starts at index 0.
vertices(g) == [r |-> VRef(0, g)]

\* next, had its bound been inclusive.
VIter_next_inclusive(it, graph) ==
    IF it.r.index <= num_vertices(graph)
    THEN LET old_ref == VRef(it.r.index, it.r.graph)
         IN  [out |-> Some(old_ref), it |-> [it EXCEPT !.r.index = it.r.index + 1]]
    ELSE [out |-> None, it |-> it]

\* <VIter as Iterator>::next, given the graph the iterator refers to: the
\* bound is read from num_vertices() at every call.
VIter_next(it, graph) ==
    IF it.r.index < num_vertices(graph)
    THEN LET old_ref == VRef(it.r.index, it.r.graph)
         IN  [out |-> Some(old_ref), it |-> [it EXCEPT !.r.index = it.r.index + 1]]
    ELSE [out |-> None, it |-> it]

\* ------------------------------------------------------ extend_with_edges
\* The first loop: for vref in self.vertices() { ref_map.insert(*vref, vref) }.
\* *vref goes through deref; HashMap::insert replaces the value of a key
\* already present.
RECURSIVE ScanVertices(_, _, _)
ScanVertices(self, it, ref_map) ==
    LET n == VIter_next(it, self)
    IN  IF n.out = None
        THEN [panic |-> FALSE, ref_map |-> ref_map]
        ELSE LET vref == n.out[1]
                 d    == VRef_deref(vref)
             IN  IF d.kind = "panic"
                 THEN [panic |-> TRUE, ref_map |-> ref_map]
                 ELSE ScanVertices(self, n.it, (d.val :> vref) @@ ref_map)

\* if !ref_map.contains_key(&p) { vref = add_vertex(p); vrefs.push(vref);
\*                                ref_map.insert(p, vref) }
InsertIfAbsent(st, g, p) ==
    IF st.panic \/ p \in DOMAIN st.ref_map
    THEN st
    ELSE LET a == add_vertex(st.self, g, p)
         IN  IF a.out.kind = "panic"
             THEN [st EXCEPT !.panic = TRUE, !.self = a.g]
             ELSE [panic   |-> FALSE,
                   self    |-> a.g,
                   ref_map |-> (p :> a.out.val) @@ st.ref_map,
                   vrefs   |-> Append(st.vrefs, a.out.val)]

\* The second loop, from the i-th pair on.  The value add_edge returns is
\* dropped; a panic in it unwinds out of extend_with_edges.
RECURSIVE EdgeLoop(_, _, _, _)
EdgeLoop(st, g, edges, i) ==
    IF i > Len(edges)
    THEN Res(Ret(st.vrefs), st.self)
    ELSE LET u  == edges[i][1]
             v  == edges[i][2]
             s1 == InsertIfAbsent(st, g, u)
             s2 == InsertIfAbsent(s1, g, v)
         IN  IF s2.panic
             THEN Res(Panic, s2.self)
             ELSE LET e == add_edge(s2.self, g, s2.ref_map[u], s2.ref_map[v],
                                    DefaultWeight)
                  IN  IF e.out.kind = "panic"
                      THEN Res(Panic, e.g)
                      ELSE EdgeLoop([s2 EXCEPT !.self = e.g], g, edges, i + 1)

extend_with_edges(self, g, edges) ==
    LET scan == ScanVertices(self, vertices(g), << >>)
    IN  IF scan.panic
        THEN Res(Panic, self)
        ELSE EdgeLoop([panic |-> FALSE, self |-> self,
                       ref_map |-> scan.ref_map, vrefs |-> << >>],
                      g, edges, 1)

\* ---------------------------------------------------------------- state
\* graphs : the graphs constructed, by id
\* iter   : the caller's current vertex iterator (None before vertices());
\*          besides the VIter's own field r it records, for the iteration
\*          it belongs to, num_vertices() when it was created (n0), the
\*          handles yielded so far and whether next() has returned None
\* last   : the most recent call: operation, graph, arguments, outcome and
\*          the graph before and after it
\* rep    : the call before `last` when it was the same call (operation,
\*          graph and arguments) made twice in a row, NoCall otherwise
NoCall == [op |-> "none", self |-> 0, args |-> << >>, out |-> Ret(<< >>),
           pre |-> new, post |-> new]

SameCall(c, d) == c.op = d.op /\ c.self = d.self /\ c.args = d.args

Init ==
    /\ graphs = [g \in GraphIds |-> new]
    /\ iter = None
    /\ last = NoCall
    /\ rep = NoCall

\* Record a call with outcome `o` that leaves graph g as `post`.
Record(op, g, args, o, post) ==
    LET c == [op |-> op, self |-> g, args |-> args, out |-> o,
              pre |-> graphs[g], post |-> post]
    IN  /\ last' = c
        /\ rep' = IF SameCall(c, last) THEN last ELSE NoCall

\* A method of graph g ran with result `res`.
Invoke(op, g, args, res) ==
    /\ graphs' = [graphs EXCEPT ![g] = res.g]
    /\ Record(op, g, args, res.out, res.g)

AddVertex ==
    \E g \in GraphIds, v \in Payloads :
        /\ Invoke("add_vertex", g, <<v>>, add_vertex(graphs[g], g, v))
        /\ UNCHANGED iter

AddEdge ==
    \E g \in GraphIds, value \in Weights :
      \E p \in VRefPairs[g] :
        /\ Invoke("add_edge", g, <<p[1], p[2], value>>,
                  add_edge(graphs[g], g, p[1], p[2], value))
        /\ UNCHANGED iter

ReplaceVertex ==
    \E g \in GraphIds, v \in VRefs, value \in Payloads :
        /\ Invoke("replace_vertex", g, <<v, value>>,
                  replace_vertex(graphs[g], v, value))
        /\ UNCHANGED iter

ReplaceEdge ==
    \E g \in GraphIds, value \in Weights :
      \E p \in VRefPairs[g] :
        /\ Invoke("replace_edge", g, <<p[1], p[2], value>>,
                  replace_edge(graphs[g], p[1], p[2], value))
        /\ UNCHANGED iter

GetNeighbors ==
    \E g \in GraphIds, v \in VRefs :
        /\ Invoke("get_neighbors", g, <<v>>,
                  Res(Ret(get_neighbors(graphs[g], v)), graphs[g]))
        /\ UNCHANGED iter

Adjacent ==
    \E g \in GraphIds :
      \E p \in VRefPairs[g] :
        /\ Invoke("adjacent", g, <<p[1], p[2]>>,
                  Res(Ret(adjacent(graphs[g], p[1], p[2])), graphs[g]))
        /\ UNCHANGED iter

NumVertices ==
    \E g \in GraphIds :
        /\ Invoke("num_vertices", g, << >>,
                  Res(Ret(num_vertices(graphs[g])), graphs[g]))
        /\ UNCHANGED iter

NumEdges ==
    \E g \in GraphIds :
        /\ Invoke("num_edges", g, << >>,
                  Res(Ret(num_edges(graphs[g])), graphs[g]))
        /\ UNCHANGED iter

GetAdjacencyMatrix ==
    \E g \in GraphIds :
        /\ Invoke("get_adjacency_matrix", g, << >>,
                  Res(Ret(get_adjacency_matrix(graphs[g])), graphs[g]))
        /\ UNCHANGED iter

GetLaplacian ==
    \E g \in GraphIds :
        /\ Invoke("get_laplacian", g, << >>,
                  Res(Ret(get_laplacian(graphs[g])), graphs[g]))
        /\ UNCHANGED iter

NumComponents ==
    \E g \in GraphIds :
        /\ Invoke("num_components", g, << >>,
                  Res(Ret(num_components(graphs[g])), graphs[g]))
        /\ UNCHANGED iter

Deref ==
    \E v \in VRefs :
        /\ Record("deref", v.graph, <<v>>, VRef_deref(v), graphs[v.graph])
        /\ UNCHANGED <<graphs, iter>>

ExtendWithEdges ==
    \E g \in GraphIds, edges \in EdgeLists :
        /\ Invoke("extend_with_edges", g, <<edges>>,
                  extend_with_edges(graphs[g], g, edges))
        /\ UNCHANGED iter

Vertices ==
    \E g \in GraphIds :
        /\ iter' = Some([r       |-> vertices(g).r,
                         n0      |-> num_vertices(graphs[g]),
                         yielded |-> << >>,
                         ended   |-> FALSE])
        /\ Record("vertices", g, << >>, Ret(vertices(g)), graphs[g])
        /\ UNCHANGED graphs

Next_ ==
    /\ iter # None
    /\ LET it == iter[1]
           n  == VIter_next([r |-> it.r], graphs[it.r.graph])
       IN  /\ iter' = Some([it EXCEPT
                              !.r       = n.it.r,
                              !.yielded = IF n.out = None THEN @
                                          ELSE Append(@, n.out[1]),
                              !.ended   = @ \/ n.out = None])
           /\ Record("next", it.r.graph, << >>, Ret(n.out), graphs[it.r.graph])
    /\ UNCHANGED graphs

Next ==
    \/ AddVertex
    \/ AddEdge
    \/ ReplaceVertex
    \/ ReplaceEdge
    \/ GetNeighbors
    \/ Adjacent
    \/ NumVertices
    \/ NumEdges
    \/ GetAdjacencyMatrix
    \/ GetLaplacian
    \/ NumComponents
    \/ Deref
    \/ ExtendWithEdges
    \/ Vertices
    \/ Next_

Spec == Init /\ [][Next]_vars

\* ------------------------------------------- what the stores of a graph hold
\* The vertex indices of a graph: the positions of its `vertices` vector.
Verts(graph) == 0..(Len(graph.vertices) - 1)

\* Every edge record of the adjacency list, over all buckets.
AllEdges(graph) ==
    UNION {{graph.adj_list[b][k] : k \in 1..Len(graph.adj_list[b])} :
             b \in 1..Len(graph.adj_list)}

\* An edge record joins the vertices at indices i and j, in either direction.
EdgeBetween(graph, i, j) ==
    \E e \in AllEdges(graph) :
        \/ e.parent = i /\ e.child = j
        \/ e.parent = j /\ e.child = i

\* The weights recorded between i and j.
WeightsBetween(graph, i, j) ==
    {e.weight : e \in {d \in AllEdges(graph) :
                         \/ d.parent = i /\ d.child = j
                         \/ d.parent = j /\ d.child = i}}

\* The undirected edges: unordered pairs of joined indices.
StoredEdges(graph) == {{e.parent, e.child} : e \in AllEdges(graph)}

Degree(graph, i) ==
    Cardinality({j \in Verts(graph) \ {i} : EdgeBetween(graph, i, j)})

\* The vertices reachable from the set S along edges.
RECURSIVE Reach(_, _)
Reach(graph, S) ==
    LET T == S \cup {j \in Verts(graph) : \E i \in S : EdgeBetween(graph, i, j)}
    IN  IF T = S THEN S ELSE Reach(graph, T)

\* The number of connected components of the undirected adjacency relation.
ComponentCount(graph) ==
    Cardinality({Reach(graph, {i}) : i \in Verts(graph)})

RECURSIVE RowSum(_)
RowSum(row) == IF row = << >> THEN 0 ELSE Head(row) + RowSum(Tail(row))

\* A handle made for graph g.
OfGraph(v, g) == v.graph = g

\* ------------------------------------------------------------------ claims

\* C1: for two different handles h1, h2 of the same graph with no edge between them,
\* add_edge(h1, h2, w) called twice in a row succeeds the first time, reports
\* failure the second time, and num_edges() after the two calls is exactly
\* 1 greater than before them.
C1_NoDuplicateEdges ==
    (/\ last.op = "add_edge"
     /\ rep.op = "add_edge"
     /\ OfGraph(last.args[1], last.self)
     /\ OfGraph(last.args[2], last.self)
     /\ last.args[1] # last.args[2]
     /\ ~EdgeBetween(rep.pre, last.args[1].index, last.args[2].index))
    => /\ rep.out.kind = "ret"
       /\ rep.out.val # None
       /\ last.out = Ret(None)
       /\ num_edges(last.post) = num_edges(rep.pre) + 1

\* C2: add_vertex(payload) always succeeds: it returns a handle (never
\* panics), the handle's index is the new last index, and num_vertices()
\* afterwards equals the number of entries of the vertex store, one more
\* than before the call.
C2_AddVertexSucceeds ==
    last.op = "add_vertex"
    => /\ last.out.kind = "ret"
       /\ last.out.val = VRef(Len(last.post.vertices) - 1, last.self)
       /\ Len(last.post.vertices) = Len(last.pre.vertices) + 1
       /\ num_vertices(last.post) = Len(last.post.vertices)

\* C3: a handle of graph G1 passed to add_edge on another graph G2 is
\* rejected with a reported outcome: the call does not panic, no edge is
\* returned, and G2's vertices, edges and num_edges() are unchanged.
C3_CrossGraphRejected ==
    (/\ last.op = "add_edge"
     /\ \/ ~OfGraph(last.args[1], last.self)
        \/ ~OfGraph(last.args[2], last.self))
    => /\ last.out.kind = "ret"
       /\ last.out.val = None
       /\ last.post = last.pre
       /\ num_edges(last.post) = num_edges(last.pre)

\* C4: vertex round-trip: replace_vertex(add_vertex(v), v2) returns v and a
\* later read of the handle yields v2.  Call by call: add_vertex(v) returns a
\* handle under which v is stored; replace_vertex on a handle of a stored
\* vertex returns the payload stored before the call and stores the new one;
\* dereferencing such a handle returns the stored payload.
C4_VertexRoundTrip ==
    /\ last.op = "add_vertex"
       => /\ last.out.kind = "ret"
          /\ OfGraph(last.out.val, last.self)
          /\ last.out.val.index \in Verts(last.post)
          /\ last.post.vertices[last.out.val.index + 1].contents = last.args[1]
    /\ (/\ last.op = "replace_vertex"
        /\ OfGraph(last.args[1], last.self)
        /\ last.args[1].index \in Verts(last.pre))
       => /\ last.out = Ret(<<last.pre.vertices[last.args[1].index + 1].contents>>)
          /\ last.post.vertices[last.args[1].index + 1].contents = last.args[2]
    /\ (/\ last.op = "deref"
        /\ last.args[1].index \in Verts(last.pre))
       => last.out = Ret(last.pre.vertices[last.args[1].index + 1].contents)

\* C5: in every reachable state, for all handles h1, h2 of a graph,
\* adjacent(h1, h2) = adjacent(h2, h1).
C5_AdjacentSymmetric ==
    \A g \in GraphIds :
        \A v1 \in VRefs, v2 \in VRefs :
            (OfGraph(v1, g) /\ OfGraph(v2, g))
            => adjacent(graphs[g], v1, v2) = adjacent(graphs[g], v2, v1)

\* adjacent was called on two different handles of the graph and returned.
C5_Witness ==
    /\ last.op = "adjacent"
    /\ OfGraph(last.args[1], last.self)
    /\ OfGraph(last.args[2], last.self)
    /\ last.args[1] # last.args[2]
    /\ last.out.kind = "ret"

C7_ExtendIdempotent ==
    (last.op = "extend_with_edges" /\ rep.op = "extend_with_edges")
    => /\ rep.out.kind = "ret"
       /\ last.out = Ret(<< >>)
       /\ num_vertices(last.post) = num_vertices(rep.post)
       /\ num_edges(last.post) = num_edges(rep.post)

\* C8: num_components() returns the number of connected components of the
\* undirected adjacency relation of the graph: 0 for the empty graph that
\* new() builds, 1 for one vertex without edges, one per isolated vertex.
C8_NumComponents ==
    last.op = "num_components"
    => last.out = Ret(ComponentCount(last.pre))

====
